---- MODULE Spec2Model ----
(***************************************************************************)
(* A model of the PLY shape provider (src/mol-model-formats/shape/ply.ts)  *)
(* and of the cooperative yield gates of the task performance tests        *)
(* (src/perf-tests/tasks.ts).                                              *)
(*                                                                         *)
(* JavaScript arrays are 0-based; the sequences below are 1-based, so      *)
(* element i of an array a is a[i + 1], written At(a, i).                  *)
(***************************************************************************)
EXTENDS Integers, Sequences, FiniteSets, TLC

(***************************************************************************)
(* Bounds of the model.                                                    *)
(***************************************************************************)
\* Rows of the largest vertex table of the catalogue of PLY files.
MaxRows == 3
\* getShape requests made in one run.
MaxRequests == 3
\* Stands for the literal 1000000 of tasks.ts (the iterations of a loop).
Iterations == 5
\* Stands for the literal 10000 of tasks.ts (i % 10000): the loops check the
\* clock every CheckEvery iterations.
CheckEvery == 2
\* The last reading of the clock, in milliseconds.
MaxClock == 800
\* Stands for the literal 100000 of ply.ts lines 82 and 90 (i % 100000),
\* scaled down so that tables of MaxRows rows cross several checkpoints.
CheckpointRows == 2

(***************************************************************************)
(* Values of JavaScript that are not numbers.                              *)
(***************************************************************************)
\* The value of an array read outside its bounds, a missing property.
Undefined == -1
\* -Infinity, the value arrayMax leaves for an empty array.
NegInfinity == -2

At(a, i) == IF i >= 0 /\ i < Len(a) THEN a[i + 1] ELSE Undefined

RECURSIVE Digits(_)
\* Number.prototype.toString of a non-negative integer: its decimal digits.
Digits(n) == IF n < 10 THEN <<n>> ELSE Append(Digits(n \div 10), n % 10)

(***************************************************************************)
(* PlyTable / PlyList (mol-io/reader/ply/schema): a vertex table is its    *)
(* row count and its named columns, a face list is its rows of entries.    *)
(***************************************************************************)
Absent == [kind |-> "absent", data |-> <<>>, v |-> 0]
RealColumn(d) == [kind |-> "real", data |-> d, v |-> 0]

\* Column.ofConst(v, rowCount, int): value(row) is v for every row.
ConstColumn(c) == [kind |-> "const", data |-> <<>>, v |-> c]

\* column.value(row)
Value(col, row) ==
    IF col.kind = "const" THEN col.v
    ELSE IF col.kind = "real" THEN At(col.data, row)
    ELSE Undefined

\* vertex.getProperty(name): the column, or undefined when there is none.
GetProperty(vertex, name) ==
    IF name \in DOMAIN vertex.cols THEN RealColumn(vertex.cols[name]) ELSE Absent

NoTable == [present |-> FALSE, rowCount |-> 0, cols |-> <<>>]
NoList == [present |-> FALSE, rowCount |-> 0, rows |-> <<>>]
Table(n, c) == [present |-> TRUE, rowCount |-> n, cols |-> c]
List(r) == [present |-> TRUE, rowCount |-> Len(r), rows |-> r]

\* face.value(i): { entries, count }
FaceValue(face, i) == [entries |-> At(face.rows, i), count |-> Len(At(face.rows, i))]

Serial(n) == [i \in 1..n |-> i - 1]
XYZ(n) == [x |-> [i \in 1..n |-> i], y |-> [i \in 1..n |-> i * i], z |-> [i \in 1..n |-> 20 + i]]
\* Atom ids are not contiguous and reach beyond the row count; rows share ids.
AtomIds(n) == [atomid |-> [i \in 1..n |-> IF i % 2 = 0 THEN n + 1 ELSE 1]]
Rgb(n) == [red |-> [i \in 1..n |-> 200 + i], green |-> [i \in 1..n |-> 100 + i], blue |-> [i \in 1..n |-> i]]
Normals(n) == [nx |-> [i \in 1..n |-> 0], ny |-> [i \in 1..n |-> 0], nz |-> [i \in 1..n |-> 1]]
\* Two of the three normal properties.
PartNormals(n) == [nx |-> [i \in 1..n |-> 1], ny |-> [i \in 1..n |-> i]]
\* m face rows over n vertices, no two alike: triangles, every second row a
\* quadrilateral.
Faces(m, n) ==
    [i \in 1..m |->
        IF i % 2 = 0 THEN <<(i - 1) % n, i % n, (i + 1) % n, (i + 2) % n>>
        ELSE <<(i - 1) % n, i % n, (i + 1) % n>>]
\* A face row of two entries.
Edge == <<0, 1>>

\* The PLY files of a run, by identity: plyFile.getElement('vertex' | 'face').
FileIds == 1..6
Catalog ==
    [f \in FileIds |->
        CASE f = 1 -> [vertex |-> Table(MaxRows, XYZ(MaxRows) @@ AtomIds(MaxRows) @@ Rgb(MaxRows)
                                                  @@ PartNormals(MaxRows)),
                       face |-> List(Faces(MaxRows, MaxRows))]
          [] f = 2 -> [vertex |-> Table(MaxRows - 1, XYZ(MaxRows - 1) @@ Normals(MaxRows - 1)),
                       face |-> List(<<Edge>> \o Faces(1, MaxRows - 1))]
          [] f = 3 -> [vertex |-> Table(1, [x |-> <<1>>, y |-> <<11>>] @@ AtomIds(1)),
                       face |-> List(<<>>)]
          [] f = 4 -> [vertex |-> NoTable, face |-> List(<<>>)]
          [] f = 5 -> [vertex |-> Table(1, XYZ(1)), face |-> NoList]
          [] OTHER -> [vertex |-> Table(0, XYZ(0)), face |-> List(<<>>)]]

GetElement(f) == Catalog[f]

(***************************************************************************)
(* PD.Values<PlyShapeParams>: the coloring and grouping parameters.        *)
(***************************************************************************)
\* ColorNames.grey
Grey == 8421504
Colorings ==
    { [name |-> "uniform", color |-> Grey, red |-> "", green |-> "", blue |-> ""],
      [name |-> "vertex", color |-> 0, red |-> "red", green |-> "green", blue |-> "blue"] }
Groupings ==
    { [name |-> "none", group |-> ""],
      [name |-> "vertex", group |-> "atomid"] }
Props == [coloring : Colorings, grouping : Groupings]

\* PD.isParamEqual on one parameter: structural equality of its value.
IsParamEqual(a, b) == a = b

\* Color.toRgb and Color.fromRgb (mol-util/color).
ToRgb(c) == <<(c \div 65536) % 256, (c \div 256) % 256, c % 256>>
FromRgb(r, g, b) == r * 65536 + g * 256 + b


(***************************************************************************)
(* getGrouping (ply.ts 108-119).                                           *)
(***************************************************************************)
RECURSIVE ArrayMaxFrom(_, _, _)
ArrayMaxFrom(array, i, max) ==
    IF i >= Len(array) THEN max
    ELSE ArrayMaxFrom(array, i + 1, IF At(array, i) > max THEN At(array, i) ELSE max)

\* arrayMax (mol-util/array): starts from -Infinity and keeps the largest.
ArrayMax(array) == IF Len(array) = 0 THEN NegInfinity ELSE ArrayMaxFrom(array, 1, At(array, 0))

\* fillSerial(new Uint32Array(n)): 0, 1, ..., n - 1.
FillSerial(n) == Serial(n)

\* maxId + 1 in floating point: -Infinity + 1 is -Infinity.
PlusOne(m) == IF m = NegInfinity THEN NegInfinity ELSE m + 1

\* new Uint32Array(length) is a RangeError unless length is an index.
ValidLength(length) == length >= 0

RECURSIVE FillMap(_, _, _)
\* for (let i = 0, il = ids.length; i < il; ++i) map[ids[i]] = i
FillMap(map, ids, i) ==
    IF i >= Len(ids) THEN map
    ELSE FillMap([map EXCEPT ![At(ids, i) + 1] = i], ids, i + 1)

\* The ids of the rows: the group column, or the serial numbers of the rows.
GroupIds(vertex, props) ==
    LET column == IF props.grouping.name = "vertex"
                  THEN GetProperty(vertex, props.grouping.group) ELSE Absent
    IN IF column.kind # "absent" THEN column.data ELSE FillSerial(vertex.rowCount)

NoGrouping == [ref |-> 0, ids |-> <<>>, map |-> <<>>]

\* getGrouping: ok is FALSE when the allocation of map raises.
GetGrouping(vertex, props, ref) ==
    LET ids == GroupIds(vertex, props)
        length == PlusOne(ArrayMax(ids))
    IN IF ValidLength(length)
       THEN [ok |-> TRUE,
             grouping |-> [ref |-> ref, ids |-> ids,
                           map |-> FillMap([k \in 1..length |-> 0], ids, 0)]]
       ELSE [ok |-> FALSE, grouping |-> NoGrouping]

(***************************************************************************)
(* getColoring (ply.ts 121-139).                                           *)
(***************************************************************************)
NoColoring == [ref |-> 0, red |-> Absent, green |-> Absent, blue |-> Absent]

\* vertex.getProperty(name) || Column.ofConst(127, rowCount, int)
OrMidGrey(col) == IF col.kind = "absent" THEN ConstColumn(127) ELSE col

GetColoring(vertex, props, ref) ==
    IF props.coloring.name = "vertex"
    THEN [ref |-> ref,
          red |-> OrMidGrey(GetProperty(vertex, props.coloring.red)),
          green |-> OrMidGrey(GetProperty(vertex, props.coloring.green)),
          blue |-> OrMidGrey(GetProperty(vertex, props.coloring.blue))]
    ELSE LET rgb == ToRgb(props.coloring.color)
         IN [ref |-> ref, red |-> ConstColumn(rgb[1]),
             green |-> ConstColumn(rgb[2]), blue |-> ConstColumn(rgb[3])]

(***************************************************************************)
(* MeshBuilder and Mesh (mol-geo/geometry/mesh): the build state holds the *)
(* four growable buffers, getMesh freezes them into a Mesh.                *)
(***************************************************************************)
\* MeshBuilder.createState(vertex.rowCount, vertex.rowCount / 4, mesh)
CreateState == [vertices |-> <<>>, normals |-> <<>>, indices |-> <<>>, groups |-> <<>>]

NoMesh ==
    [ref |-> 0, vertices |-> <<>>, normals |-> <<>>, indices |-> <<>>, groups |-> <<>>,
     normalsComputed |-> FALSE]

Sub(a, b) == <<a[1] - b[1], a[2] - b[2], a[3] - b[3]>>
Add(a, b) == <<a[1] + b[1], a[2] + b[2], a[3] + b[3]>>
Cross(a, b) ==
    <<a[2] * b[3] - a[3] * b[2], a[3] * b[1] - a[1] * b[3], a[1] * b[2] - a[2] * b[1]>>

RECURSIVE AccumulateNormals(_, _, _, _)
\* Adds the (area weighted) normal of every triangle to its three corners.
AccumulateNormals(normals, vertices, indices, t) ==
    IF t > Len(indices) THEN normals
    ELSE LET a == indices[t][1] + 1
             b == indices[t][2] + 1
             c == indices[t][3] + 1
             n == Cross(Sub(vertices[b], vertices[a]), Sub(vertices[c], vertices[a]))
         IN AccumulateNormals(
                [k \in DOMAIN normals |->
                    IF k \in {a, b, c} THEN Add(normals[k], n) ELSE normals[k]],
                vertices, indices, t + 1)

\* Mesh.computeNormals(m): nothing to do when the normals were supplied; the
\* lengths of the accumulated vectors are left as they are (no normalisation).
ComputeNormals(m) ==
    IF m.normalsComputed THEN m
    ELSE [m EXCEPT !.normals =
            AccumulateNormals([k \in DOMAIN m.vertices |-> <<0, 0, 0>>],
                              m.vertices, m.indices, 1)]

\* MeshBuilder.getMesh(builderState): a new Mesh holding the frozen buffers.
MeshOf(st, ref) ==
    [ref |-> ref, vertices |-> st.vertices, normals |-> st.normals,
     indices |-> st.indices, groups |-> st.groups, normalsComputed |-> FALSE]

(***************************************************************************)
(* getMesh (ply.ts 66-104), one loop iteration at a time.                  *)
(***************************************************************************)
\* if (!x || !y || !z) throw new Error('missing coordinate properties')
HasCoordinates(vertex) ==
    /\ GetProperty(vertex, "x").kind # "absent"
    /\ GetProperty(vertex, "y").kind # "absent"
    /\ GetProperty(vertex, "z").kind # "absent"

\* hasNormals with || for &&.
HasAnyNormal(vertex) ==
    \/ GetProperty(vertex, "nx").kind # "absent"
    \/ GetProperty(vertex, "ny").kind # "absent"
    \/ GetProperty(vertex, "nz").kind # "absent"

\* const hasNormals = !!nx && !!ny && !!nz
HasNormals(vertex) ==
    /\ GetProperty(vertex, "nx").kind # "absent"
    /\ GetProperty(vertex, "ny").kind # "absent"
    /\ GetProperty(vertex, "nz").kind # "absent"

\* The checkpoint test without the modulus: every row is a checkpoint.
EveryRowCheckpoint(i) == i >= 0

\* The checkpoint test skipping row 0.
IsLaterCheckpoint(i) == i > 0 /\ i % CheckpointRows = 0

\* i % 100000 === 0: row i is a checkpoint of its loop.
IsCheckpoint(i) == i % CheckpointRows = 0

\* The vertex loop taking the row index for the group id.
AddVertexOwnGroup(st, vertex, groupIds, i) ==
    [st EXCEPT
        !.vertices = Append(@, <<Value(GetProperty(vertex, "x"), i),
                                 Value(GetProperty(vertex, "y"), i),
                                 Value(GetProperty(vertex, "z"), i)>>),
        !.normals = IF HasNormals(vertex)
                    THEN Append(@, <<Value(GetProperty(vertex, "nx"), i),
                                     Value(GetProperty(vertex, "ny"), i),
                                     Value(GetProperty(vertex, "nz"), i)>>)
                    ELSE @,
        !.groups = Append(@, i)]

\* The body of the vertex loop for row i (ply.ts 84-86).
AddVertex(st, vertex, groupIds, i) ==
    [st EXCEPT
        !.vertices = Append(@, <<Value(GetProperty(vertex, "x"), i),
                                 Value(GetProperty(vertex, "y"), i),
                                 Value(GetProperty(vertex, "z"), i)>>),
        !.normals = IF HasNormals(vertex)
                    THEN Append(@, <<Value(GetProperty(vertex, "nx"), i),
                                     Value(GetProperty(vertex, "ny"), i),
                                     Value(GetProperty(vertex, "nz"), i)>>)
                    ELSE @,
        !.groups = Append(@, At(groupIds, i))]

\* The face loop taking the first three entries of every row that has them.
AddFaceOfThreeOrMore(st, face, i) ==
    LET v == FaceValue(face, i)
    IN IF v.count >= 3
       THEN [st EXCEPT !.indices = Append(@, <<v.entries[1], v.entries[2], v.entries[3]>>)]
       ELSE st

\* The body of the face loop for row i (ply.ts 92-96): triangles only.
AddFace(st, face, i) ==
    LET v == FaceValue(face, i)
    IN IF v.count = 3
       THEN [st EXCEPT !.indices = Append(@, <<v.entries[1], v.entries[2], v.entries[3]>>)]
       ELSE st

\* ply.ts 99-103: freeze the buffers, flag supplied normals, compute the rest.
FinishMesh(st, vertex, ref) ==
    ComputeNormals([MeshOf(st, ref) EXCEPT !.normalsComputed = HasNormals(vertex)])

(***************************************************************************)
(* createShape (ply.ts 141-155) and the three callbacks of a Shape.        *)
(***************************************************************************)
NoShape ==
    [ref |-> 0, source |-> 0, mesh |-> NoMesh, coloring |-> NoColoring,
     grouping |-> NoGrouping]

CreateShape(plyFile, mesh, coloring, grouping, ref) ==
    [ref |-> ref, source |-> plyFile, mesh |-> mesh, coloring |-> coloring,
     grouping |-> grouping]

\* The bit operators of Color.fromRgb read undefined as 0.
ToInt32(v) == IF v = Undefined THEN 0 ELSE v

\* (groupId) => Color.fromRgb(red.value(map[groupId]), green..., blue...)
GetColor(shape, groupId) ==
    LET idx == At(shape.grouping.map, groupId)
    IN FromRgb(ToInt32(Value(shape.coloring.red, idx)),
               ToInt32(Value(shape.coloring.green, idx)),
               ToInt32(Value(shape.coloring.blue, idx)))

\* () => 1
GetSize(shape, groupId) == 1

\* (groupId) => ids[groupId].toString(): a TypeError when ids[groupId] is
\* undefined (ok is FALSE).
GetLabel(shape, groupId) ==
    LET id == At(shape.grouping.ids, groupId)
    IN IF id = Undefined THEN [ok |-> FALSE, label |-> <<>>]
       ELSE [ok |-> TRUE, label |-> Digits(id)]

(***************************************************************************)
(* The state: the closure of makeShapeGetter (ply.ts 158-164), the params  *)
(* object of the caller, the getShape call in flight, and what the caller  *)
(* has seen of the requests it made.                                       *)
(***************************************************************************)
VARIABLES
    _plyFile,        \* the cached dataset identity, 0 while undefined
    _props,          \* the cached params: the object of heap it refers to
    _shape,          \* the cached Shape
    _mesh,           \* the cached Mesh
    _coloring,       \* the cached Coloring
    _grouping,       \* the cached Grouping
    heap,            \* the params objects: the caller's and the cache's clone
    call,            \* the getShape call in flight: its position and locals
    abortRequested,  \* the cancellation flag of the call's execution context
    nreq,            \* the requests made; request n allocates the objects n
    pre,             \* when the last request was made: the cache, the last
                     \* request that had returned a Shape, the status of the
                     \* request before
    last,            \* the last request and its outcome
    good,            \* the last request that returned a Shape
    other            \* a getShape call made while another one was suspended,
                     \* and the parts of the cache it read and wrote

cacheVars == <<_plyFile, _props, _shape, _mesh, _coloring, _grouping, heap>>

shapeVars == <<cacheVars, call, abortRequested, nreq, pre, last, good, other>>

(***************************************************************************)
(* The state of the yield tests (tasks.ts): the loops yielding, yielding1  *)
(* and testYielding, each with a gate of its own, taken through the same   *)
(* iterations under the same clock.                                        *)
(***************************************************************************)
VARIABLES
    now,             \* what now() answers
    loop,            \* the loop variable i, where the loops stand, and ret
    yielding,        \* yielding(): its Yielding gate and what it did
    yielding1,       \* yielding1(): its Yielding gate and what it did
    testYielding     \* testYielding(): its CheckYielding gate and what it did

yieldVars == <<now, loop, yielding, yielding1, testYielding>>

vars == <<shapeVars, yieldVars>>

NoProps ==
    [coloring |-> [name |-> "undefined", color |-> 0, red |-> "", green |-> "", blue |-> ""],
     grouping |-> [name |-> "undefined", group |-> ""]]

DefaultProps ==
    [coloring |-> [name |-> "uniform", color |-> Grey, red |-> "", green |-> "", blue |-> ""],
     grouping |-> [name |-> "none", group |-> ""]]

\* The value of the cached params (NoProps while _props is undefined).
CachedProps == IF _props = "undefined" THEN NoProps ELSE heap[_props]

\* The six parts of the cache, params by value.
Cache ==
    [plyFile |-> _plyFile, props |-> CachedProps, shape |-> _shape, mesh |-> _mesh,
     coloring |-> _coloring, grouping |-> _grouping]

NoProgress == [current |-> 0, max |-> 0, message |-> <<>>]

\* No call in flight.  While a call is in flight, pc is where it stands:
\* "start" before the first loop iteration, "vertexAwait" / "faceAwait" while
\* suspended in ctx.update at row i; abortPhase and abortRow are where it
\* stood when the abort was requested; report is the progress it gave to
\* ctx.update when it was suspended last; groupIds is the argument of getMesh
\* (_grouping.ids when getMesh was called, ply.ts 192).
IdleCall ==
    [pc |-> "idle", file |-> 0, hint |-> FALSE, i |-> 0, st |-> CreateState,
     groupIds |-> <<>>, report |-> NoProgress, abortPhase |-> "", abortRow |-> 0]

NoOther == [during |-> "", reads |-> {}, writes |-> {}, status |-> "none", shape |-> NoShape]

NoRequest ==
    [status |-> "none", error |-> "", file |-> 0, props |-> NoProps, hint |-> FALSE,
     ran |-> {}, allocated |-> FALSE, normalsComputed |-> FALSE, shape |-> NoShape,
     phase |-> "", row |-> 0,
     abortPhase |-> "", abortRow |-> 0]

ShapeInit ==
    /\ _plyFile = 0
    /\ _props = "undefined"
    /\ _shape = NoShape
    /\ _mesh = NoMesh
    /\ _coloring = NoColoring
    /\ _grouping = NoGrouping
    /\ heap = [caller |-> DefaultProps, clone |-> DefaultProps]
    /\ call = IdleCall
    /\ abortRequested = FALSE
    /\ nreq = 0
    /\ good = [file |-> 0, props |-> NoProps, shape |-> NoShape]
    /\ last = NoRequest
    /\ pre = [cache |-> Cache, good |-> good, status |-> "none"]
    /\ other = NoOther

\* new Yielding(), new CheckYielding(): lastUpdated = 0.  awaits counts the
\* await expressions evaluated, promises the calls of yield() that returned
\* a promise; checks and yields hold the clock readings of the reads of
\* needsYield and of the calls of yield(); at holds the values of i at which
\* the loop was suspended.
YieldInit ==
    /\ now = 0
    /\ loop = [i |-> 0, pc |-> "run", ret |-> 0]
    /\ yielding = [lastUpdated |-> 0, awaits |-> 0, promises |-> 0]
    /\ yielding1 = [lastUpdated |-> 0, awaits |-> 0, promises |-> 0, at |-> {}]
    /\ testYielding = [lastUpdated |-> 0, checks |-> <<>>, yields |-> <<>>, awaits |-> 0,
                       at |-> {}]

Init == ShapeInit /\ YieldInit

(***************************************************************************)
(* RuntimeContext (mol-task): the execution context of the call.           *)
(***************************************************************************)
\* Reading ctx.shouldUpdate at a checkpoint observes the cancellation flag:
\* the build is aborted there when the flag is set.
Aborted == abortRequested

\* What ctx.shouldUpdate answers at row i of a loop: it depends on the clock
\* alone, so a run of the build may be stopped at any one checkpoint.
ShouldUpdate(stopAt, phase, i) == stopAt = <<phase, i>>

StopPoints == ({"vertex", "face"} \X (0..(MaxRows - 1))) \cup {<<"none", 0>>}

(***************************************************************************)
(* getShape (ply.ts 166-203).                                              *)
(***************************************************************************)
\* NewMesh forgetting the comparison of the grouping params.
NewMeshIdentityOnly(h, plyFile, props) ==
    \/ _plyFile = 0
    \/ _plyFile # plyFile
    \/ _props = "undefined"

\* NewMesh comparing the whole params instead of the grouping params.
NewMeshAnyParam(h, plyFile, props) ==
    \/ _plyFile = 0
    \/ _plyFile # plyFile
    \/ _props = "undefined"
    \/ ~IsParamEqual(h[_props], props)

\* ply.ts 177-183; h is the heap when the call is made.
NewMesh(h, plyFile, props) ==
    \/ _plyFile = 0
    \/ _plyFile # plyFile
    \/ _props = "undefined"
    \/ ~IsParamEqual(h[_props].grouping, props.grouping)

\* NewColor without the comparison: every request recolours.
NewColorAlways(h, props) == TRUE

\* ply.ts 185-187
NewColor(h, props) ==
    \/ _props = "undefined"
    \/ ~IsParamEqual(h[_props].coloring, props.coloring)

\* deepClone forgotten: the cache keeps the caller's own object.
KeepReference(h, src) == [heap |-> h, ref |-> src]

\* deepClone(props): a new object with the values of props; the clone the
\* cache held before is garbage, so the new one takes its place in heap.
DeepClone(h, src) == [heap |-> [h EXCEPT !.clone = h[src]], ref |-> "clone"]

\* The loop head the build stands at after row i of the vertex loop, of the
\* face loop, and when it enters either loop.
FaceStart(f) ==
    IF GetElement(f).face.rowCount > 0 THEN [pc |-> "face", i |-> 0]
    ELSE [pc |-> "finish", i |-> 0]

VertexStart(f) ==
    IF GetElement(f).vertex.rowCount > 0 THEN [pc |-> "vertex", i |-> 0]
    ELSE FaceStart(f)

AfterVertex(f, i) ==
    IF i + 1 < GetElement(f).vertex.rowCount THEN [pc |-> "vertex", i |-> i + 1]
    ELSE FaceStart(f)

AfterFace(f, i) ==
    IF i + 1 < GetElement(f).face.rowCount THEN [pc |-> "face", i |-> i + 1]
    ELSE [pc |-> "finish", i |-> 0]

RECURSIVE RunLoops(_, _, _, _, _, _, _)
\* The two loops of getMesh (ply.ts 81-97) from the head of row i of loop pc
\* up to the next suspension: "vertexAwait" / "faceAwait" when ctx.update is
\* awaited at row i, "cancelled" when the checkpoint at row i aborts the
\* build, "finish" when both loops are done.  resumed: the run starts right
\* after the await of row i, with the body of that row.
RunLoops(f, pc, i, st, resumed, stopAt, groupIds) ==
    IF pc = "finish" THEN [pc |-> "finish", phase |-> "", i |-> 0, st |-> st]
    ELSE IF ~resumed /\ IsCheckpoint(i) /\ Aborted
    THEN [pc |-> "cancelled", phase |-> pc, i |-> i, st |-> st]
    ELSE IF ~resumed /\ IsCheckpoint(i) /\ ShouldUpdate(stopAt, pc, i)
    THEN [pc |-> IF pc = "vertex" THEN "vertexAwait" ELSE "faceAwait",
          phase |-> pc, i |-> i, st |-> st]
    ELSE IF pc = "vertex"
    THEN LET next == AfterVertex(f, i)
         IN RunLoops(f, next.pc, next.i,
                     AddVertex(st, GetElement(f).vertex, groupIds, i), FALSE, stopAt,
                     groupIds)
    ELSE LET next == AfterFace(f, i)
         IN RunLoops(f, next.pc, next.i, AddFace(st, GetElement(f).face, i), FALSE, stopAt,
                     groupIds)

\* { current: i, max: il, message: `adding vertex ${i}` } (ply.ts 82, 90),
\* il being the row count of the loop.
Progress(f, phase, i) ==
    [current |-> i,
     max |-> IF phase = "vertex" THEN GetElement(f).vertex.rowCount
             ELSE GetElement(f).face.rowCount,
     message |-> <<"adding", phase, i>>]

\* The call ends with an error: the promise of getShape is rejected.
Throw(req, error, phase, row) ==
    /\ last' = [req EXCEPT !.status = "failed", !.error = error, !.phase = phase, !.row = row,
                           !.abortPhase = call.abortPhase, !.abortRow = call.abortRow]
    /\ call' = IdleCall
    /\ abortRequested' = FALSE
    /\ UNCHANGED good

\* ply.ts 199-202: the call ends with the cached Shape.
Return(req, shape, h) ==
    /\ _plyFile' = req.file
    /\ LET c == DeepClone(h, "caller")
       IN heap' = c.heap /\ _props' = c.ref
    /\ last' = [req EXCEPT !.status = "returned", !.shape = shape,
                           !.abortPhase = call.abortPhase, !.abortRow = call.abortRow]
    /\ good' = [file |-> req.file, props |-> req.props, shape |-> shape]
    /\ call' = IdleCall
    /\ abortRequested' = FALSE

\* The task is asked to abort: before the build starts its first loop, or
\* while the build is suspended in ctx.update.
RequestAbort ==
    /\ call.pc \in {"start", "vertexAwait", "faceAwait"}
    /\ ~abortRequested
    /\ abortRequested' = TRUE
    /\ call' = [call EXCEPT !.abortPhase = call.pc, !.abortRow = call.i]
    /\ UNCHANGED <<cacheVars, nreq, pre, last, good>>

\* getMesh creates its build state first (ply.ts 67: allocated) and looks
\* for the coordinate properties after that (70-73); normalsComputed is the
\* flag it gives the Mesh (100) before the normals are computed (101).
\* The caller writes p into its params object and calls
\* getShape(ctx, plyFile, props, shape) with it; hint: shape is the Shape it
\* was given last.  The call runs up to the first loop of getMesh: ply.ts
\* 168-192 and, in getMesh, 67-79.
Request(f, p, hint) ==
    /\ call.pc = "idle"
    /\ nreq < MaxRequests
    /\ hint => good.shape.ref # 0
    /\ LET el == GetElement(f)
           h == [heap EXCEPT !.caller = p]
           props == h.caller
           n == nreq + 1
           req == [NoRequest EXCEPT !.file = f, !.props = props, !.hint = hint]
           g == GetGrouping(el.vertex, props, n)
       IN /\ nreq' = n
          /\ pre' = [cache |-> Cache, good |-> good, status |-> last.status]
          /\ IF ~el.vertex.present
             THEN /\ Throw(req, "missing vertex element", "", 0)
                  /\ heap' = h
                  /\ UNCHANGED <<_plyFile, _props, _shape, _mesh, _coloring, _grouping>>
             ELSE IF ~el.face.present
             THEN /\ Throw(req, "missing face element", "", 0)
                  /\ heap' = h
                  /\ UNCHANGED <<_plyFile, _props, _shape, _mesh, _coloring, _grouping>>
             ELSE IF NewMesh(h, f, props)
             THEN /\ _coloring' = GetColoring(el.vertex, props, n)
                  /\ heap' = h
                  /\ UNCHANGED <<_plyFile, _props, _shape, _mesh>>
                  /\ IF ~g.ok
                     THEN /\ Throw([req EXCEPT !.ran = {"coloring", "grouping"}],
                                   "invalid typed array length", "", 0)
                          /\ UNCHANGED _grouping
                     ELSE /\ _grouping' = g.grouping
                          /\ IF ~HasCoordinates(el.vertex)
                             THEN Throw([req EXCEPT !.ran = {"coloring", "grouping", "mesh"},
                                                    !.allocated = TRUE],
                                        "missing coordinate properties", "", 0)
                             ELSE /\ call' = [IdleCall EXCEPT !.pc = "start", !.file = f,
                                                              !.hint = hint,
                                                              !.groupIds = g.grouping.ids]
                                  /\ last' = [req EXCEPT !.status = "pending",
                                                         !.ran = {"coloring", "grouping", "mesh"},
                                                         !.allocated = TRUE]
                                  /\ UNCHANGED <<abortRequested, good>>
             ELSE IF NewColor(h, props)
             THEN /\ _coloring' = GetColoring(el.vertex, props, n)
                  /\ _shape' = CreateShape(f, _mesh, _coloring', _grouping, n)
                  /\ UNCHANGED <<_mesh, _grouping>>
                  /\ Return([req EXCEPT !.ran = {"coloring"}], _shape', h)
             ELSE /\ UNCHANGED <<_shape, _mesh, _coloring, _grouping>>
                  /\ Return(req, _shape, h)

\* The build runs from where it stands to its next suspension, to the
\* checkpoint that aborts it, or to its end (ply.ts 81-103 and, back in
\* getShape, 192-193 and 199-202).
Run(stopAt) ==
    /\ call.pc \in {"start", "vertexAwait", "faceAwait"}
    /\ stopAt[1] = "none" \/ IsCheckpoint(stopAt[2])
    /\ LET f == call.file
           from == IF call.pc = "start" THEN VertexStart(f)
                   ELSE [pc |-> IF call.pc = "vertexAwait" THEN "vertex" ELSE "face",
                         i |-> call.i]
           r == RunLoops(f, from.pc, from.i, call.st, call.pc # "start", stopAt,
                         call.groupIds)
       IN IF r.pc = "cancelled"
          THEN /\ Throw(last, "cancelled", r.phase, r.i)
               /\ UNCHANGED <<cacheVars, nreq, pre>>
          ELSE IF r.pc = "finish"
          THEN /\ _mesh' = FinishMesh(r.st, GetElement(f).vertex, nreq)
               /\ _shape' = CreateShape(f, _mesh', _coloring, _grouping, nreq)
               /\ Return([last EXCEPT !.normalsComputed = HasNormals(GetElement(f).vertex)],
                         _shape', heap)
               /\ UNCHANGED <<_coloring, _grouping, nreq, pre>>
          ELSE /\ call' = [call EXCEPT !.pc = r.pc, !.i = r.i, !.st = r.st,
                                       !.report = Progress(f, r.phase, r.i)]
               /\ UNCHANGED <<cacheVars, abortRequested, nreq, pre, last, good>>

ShapeNext ==
    \/ \E f \in FileIds, p \in Props, hint \in BOOLEAN :
            Request(f, p, hint) /\ UNCHANGED <<yieldVars, other>>
    \/ RequestAbort /\ UNCHANGED <<yieldVars, other>>
    \/ \E stopAt \in StopPoints : Run(stopAt) /\ UNCHANGED <<yieldVars, other>>

Spec == Init /\ [][ShapeNext]_vars

(***************************************************************************)
(* Callers that do not wait: getShape is called again while a call is      *)
(* suspended in the Mesh Builder.  Nothing in makeShapeGetter (ply.ts      *)
(* 157-205) keeps the second call out.                                     *)
(***************************************************************************)
\* A second call getShape(ctx2, f, p), the first of a run that is made while
\* another is suspended in ctx.update; its own context asks for no update,
\* so it runs to its end.
\* It reads _plyFile and _props (ply.ts 177-187) and writes what its branch
\* writes (189-200).
Overlap(f, p) ==
    /\ call.pc \in {"vertexAwait", "faceAwait"}
    /\ ~abortRequested
    /\ other = NoOther
    /\ nreq < MaxRequests
    /\ LET el == GetElement(f)
           h == [heap EXCEPT !.caller = p]
           props == h.caller
           n == nreq + 1
           g == GetGrouping(el.vertex, props, n)
           c == DeepClone(h, "caller")
           o == [NoOther EXCEPT !.during = call.pc]
           compared == {"_plyFile", "_props"}
       IN /\ nreq' = n
          /\ IF ~el.vertex.present \/ ~el.face.present
             THEN /\ other' = [o EXCEPT !.status = "failed"]
                  /\ heap' = h
                  /\ UNCHANGED <<_plyFile, _props, _shape, _mesh, _coloring, _grouping>>
             ELSE IF NewMesh(h, f, props)
             THEN /\ _coloring' = GetColoring(el.vertex, props, n)
                  /\ IF ~g.ok
                     THEN /\ other' = [o EXCEPT !.status = "failed", !.reads = compared,
                                                !.writes = {"_coloring"}]
                          /\ heap' = h
                          /\ UNCHANGED <<_plyFile, _props, _shape, _mesh, _grouping>>
                     ELSE /\ _grouping' = g.grouping
                          /\ IF ~HasCoordinates(el.vertex)
                             THEN /\ other' = [o EXCEPT !.status = "failed", !.reads = compared,
                                                        !.writes = {"_coloring", "_grouping"}]
                                  /\ heap' = h
                                  /\ UNCHANGED <<_plyFile, _props, _shape, _mesh>>
                             ELSE LET s == VertexStart(f)
                                      r == RunLoops(f, s.pc, s.i, CreateState, FALSE,
                                                    <<"none", 0>>, g.grouping.ids)
                                  IN /\ _mesh' = FinishMesh(r.st, el.vertex, n)
                                     /\ _shape' = CreateShape(f, _mesh', _coloring', _grouping', n)
                                     /\ _plyFile' = f
                                     /\ heap' = c.heap /\ _props' = c.ref
                                     /\ other' = [o EXCEPT !.status = "returned",
                                            !.shape = _shape', !.reads = compared,
                                            !.writes = {"_coloring", "_grouping", "_mesh",
                                                        "_shape", "_plyFile", "_props"}]
             ELSE IF NewColor(h, props)
             THEN /\ _coloring' = GetColoring(el.vertex, props, n)
                  /\ _shape' = CreateShape(f, _mesh, _coloring', _grouping, n)
                  /\ _plyFile' = f
                  /\ heap' = c.heap /\ _props' = c.ref
                  /\ other' = [o EXCEPT !.status = "returned", !.shape = _shape',
                                        !.reads = compared \cup {"_mesh", "_grouping"},
                                        !.writes = {"_coloring", "_shape", "_plyFile", "_props"}]
                  /\ UNCHANGED <<_mesh, _grouping>>
             ELSE /\ _plyFile' = f
                  /\ heap' = c.heap /\ _props' = c.ref
                  /\ other' = [o EXCEPT !.status = "returned", !.shape = _shape,
                                        !.reads = compared \cup {"_shape"},
                                        !.writes = {"_plyFile", "_props"}]
                  /\ UNCHANGED <<_shape, _mesh, _coloring, _grouping>>
    /\ UNCHANGED <<call, abortRequested, pre, last, good, yieldVars>>

OverlapNext ==
    \/ ShapeNext
    \/ \E f \in FileIds, p \in Props : Overlap(f, p)

SpecOverlap == Init /\ [][OverlapNext]_vars

(***************************************************************************)
(* The yield gates and the loops of tasks.ts.                              *)
(***************************************************************************)
\* The time budget of a gate, in milliseconds (tasks.ts 10 and 20).
Budget == 250

\* Yielding.yield() at clock reading t (tasks.ts 8-13): nothing, or the
\* clock is reset and a promise is returned.
YieldingYield(gate, t) ==
    IF t - gate.lastUpdated < Budget THEN [gate EXCEPT !.promises = @]
    ELSE [gate EXCEPT !.lastUpdated = t, !.promises = @ + 1]

\* A gate that opens as soon as the budget is reached.
NeedsYieldAtBudget(gate, t) == t - gate.lastUpdated >= Budget

\* A gate that is always open.
NeedsYieldAlways(gate, t) == TRUE

\* get needsYield at clock reading t (tasks.ts 19-21)
NeedsYield(gate, t) == t - gate.lastUpdated > Budget

\* CheckYielding.yield() at clock reading t (tasks.ts 23-26): the clock is
\* reset and a promise is returned.
CheckYieldingYield(gate, t) ==
    [gate EXCEPT !.lastUpdated = t, !.yields = Append(@, t)]

RECURSIVE Pow10(_)
Pow10(n) == IF n = 0 THEN 1 ELSE 10 * Pow10(n - 1)

\* +(i.toString() + i.toString()): the digits of i twice, read as a number.
Doubled(i) == i * Pow10(Len(Digits(i))) + i

\* i % 10000 === 0
AtCheck(i) == i % CheckEvery = 0

\* The clock moves on, by half the budget or a millisecond more.
Tick(d) ==
    /\ now + d <= MaxClock
    /\ now' = now + d
    /\ UNCHANGED <<loop, yielding, yielding1, testYielding, shapeVars>>

\* One iteration of the three loops (tasks.ts 33-36, 47-50, 60-63) up to the
\* call of CheckYielding.yield(): yielding awaits whatever yield() returns,
\* yielding1 awaits the promise if there is one, testYielding reads
\* needsYield.
Iterate ==
    /\ loop.pc = "run"
    /\ loop.i < Iterations
    /\ IF AtCheck(loop.i)
       THEN /\ yielding' = [YieldingYield(yielding, now) EXCEPT !.awaits = @ + 1]
            /\ yielding1' =
                 LET g == YieldingYield(yielding1, now)
                 IN IF g.promises > yielding1.promises
                    THEN [g EXCEPT !.awaits = @ + 1, !.at = @ \cup {loop.i}] ELSE g
            /\ testYielding' = [testYielding EXCEPT !.checks = Append(@, now)]
            /\ loop' = IF NeedsYield(testYielding, now)
                       THEN [loop EXCEPT !.pc = "yield", !.ret = @ + Doubled(loop.i)]
                       ELSE [loop EXCEPT !.i = @ + 1, !.ret = @ + Doubled(loop.i)]
       ELSE /\ loop' = [loop EXCEPT !.i = @ + 1, !.ret = @ + Doubled(loop.i)]
            /\ UNCHANGED <<yielding, yielding1, testYielding>>
    /\ UNCHANGED <<now, shapeVars>>

\* testYielding calls y.yield() and awaits its promise (tasks.ts 62).
CallYield ==
    /\ loop.pc = "yield"
    /\ testYielding' = [CheckYieldingYield(testYielding, now) EXCEPT
                            !.awaits = @ + 1, !.at = @ \cup {loop.i}]
    /\ loop' = [loop EXCEPT !.pc = "await"]
    /\ UNCHANGED <<now, yielding, yielding1, shapeVars>>

\* The scheduler resumes testYielding.
Resume ==
    /\ loop.pc = "await"
    /\ loop' = [loop EXCEPT !.pc = "run", !.i = @ + 1]
    /\ UNCHANGED <<now, yielding, yielding1, testYielding, shapeVars>>

YieldNext ==
    \/ \E d \in {Budget \div 2, Budget \div 2 + 1} : Tick(d)
    \/ Iterate
    \/ CallYield
    \/ Resume

SpecYield == Init /\ [][YieldNext]_vars

(***************************************************************************)
(* Properties of the shape getter.                                         *)
(***************************************************************************)
Idle == call.pc = "idle"
Returned == Idle /\ last.status = "returned"
Failed == Idle /\ last.status = "failed"

\* The request compared with the cache as it was when the request was made.
SameDataset == pre.cache.plyFile # 0 /\ last.file = pre.cache.plyFile
SameGrouping == pre.cache.props # NoProps /\ last.props.grouping = pre.cache.props.grouping
SameColoring == pre.cache.props # NoProps /\ last.props.coloring = pre.cache.props.coloring

\* C1: a request that fails because a coordinate property is missing, or
\* because the build is cancelled at a checkpoint, leaves every part of the
\* cache (dataset identity, params, Shape, Mesh, Coloring, Grouping) exactly
\* as it was before the call.
C1_FailedRequestKeepsCache ==
    (Failed /\ last.error \in {"missing coordinate properties", "cancelled"})
        => Cache = pre.cache

\* C1, its consequence: a colour-only rebuild uses the Mesh and the Grouping
\* of the Shape returned before it (those of the last successful full
\* rebuild).
C1_ColorOnlyUsesLastGoodGrouping ==
    (Returned /\ last.ran = {"coloring"})
        => /\ last.shape.mesh = pre.good.shape.mesh
           /\ last.shape.grouping = pre.good.shape.grouping

\* C2: a request with the dataset identity and with grouping and coloring
\* params equal to those of the last request that returned a Shape returns
\* that very Shape and runs neither the Mesh Builder nor a resolver.
C2_UnchangedPath ==
    ( /\ Returned
      /\ pre.good.shape.ref # 0
      /\ last.file = pre.good.file
      /\ last.props.grouping = pre.good.props.grouping
      /\ last.props.coloring = pre.good.props.coloring )
        => /\ last.shape = pre.good.shape
           /\ last.ran = {}
           /\ _shape = pre.cache.shape

C2_Witness ==
    /\ Returned
    /\ pre.status = "returned"
    /\ last.file = pre.good.file
    /\ last.props = pre.good.props
    /\ last.shape.ref # 0
    /\ last.shape = pre.good.shape

\* C3: a request with the cached dataset identity and equal grouping params
\* but different coloring params returns a Shape without running the Mesh
\* Builder or the Grouping Resolver; the cached Mesh and Grouping stay the
\* objects they were, which are those of the Shape returned before, and the
\* Coloring and the Shape are new.
C3_ColorOnlyRebuild ==
    ( /\ Idle
      /\ last.status # "none"
      /\ SameDataset /\ SameGrouping /\ ~SameColoring )
        => /\ last.status = "returned"
           /\ last.ran = {"coloring"}
           /\ _mesh = pre.cache.mesh
           /\ _grouping = pre.cache.grouping
           /\ last.shape.mesh = pre.cache.shape.mesh
           /\ last.shape.grouping = pre.cache.shape.grouping
           /\ _coloring.ref \notin {0, pre.cache.coloring.ref}
           /\ last.shape.ref \notin {0, pre.cache.shape.ref}
           /\ last.shape.coloring = _coloring
           /\ _shape = last.shape

\* C3 without the Grouping of the Shape returned before: the colour-only
\* branch leaves the cached Mesh and Grouping alone.
C3_CachedMeshAndGroupingKept ==
    ( /\ Idle
      /\ last.status # "none"
      /\ SameDataset /\ SameGrouping /\ ~SameColoring )
        => /\ last.status = "returned"
           /\ last.ran = {"coloring"}
           /\ _mesh = pre.cache.mesh
           /\ _grouping = pre.cache.grouping
           /\ last.shape.mesh = pre.cache.shape.mesh
           /\ last.shape.grouping = pre.cache.grouping

\* C4: a request that returns a Shape and whose dataset identity or grouping
\* params differ from the cached ones has run the Grouping Resolver, the
\* Coloring Resolver and the Mesh Builder, and the Mesh of its Shape is not
\* the Mesh of the Shape returned before, with or without the reuse hint.
C4_FullRebuild ==
    ( /\ Returned
      /\ ~SameDataset \/ ~SameGrouping )
        => /\ last.ran = {"coloring", "grouping", "mesh"}
           /\ last.shape.mesh.ref \notin {0, pre.cache.shape.mesh.ref, pre.cache.mesh.ref}
           /\ last.shape.grouping.ref \notin {0, pre.cache.grouping.ref}
           /\ last.shape.mesh = _mesh

C4_Witness ==
    /\ Returned
    /\ last.hint
    /\ SameDataset /\ ~SameGrouping /\ SameColoring
    /\ pre.cache.shape.mesh.ref # 0
    /\ last.shape.mesh.ref # pre.cache.shape.mesh.ref

\* The checkpoints of a build of file f (the rows of the vertex loop, then
\* of the face loop, whose index is a multiple of CheckpointRows), and the
\* place of a position in the order the build goes through them.
CheckpointsOf(f) ==
    { c \in {"vertex", "face"} \X (0..(MaxRows - 1)) :
        /\ c[2] % CheckpointRows = 0
        /\ c[2] < (IF c[1] = "vertex" THEN GetElement(f).vertex.rowCount
                   ELSE GetElement(f).face.rowCount) }

PlaceOf(f, phase, row) ==
    IF phase = "start" THEN 0 - 1
    ELSE IF phase \in {"vertex", "vertexAwait"} THEN row
    ELSE GetElement(f).vertex.rowCount + row

CheckpointsAfter(f, phase, row) ==
    { c \in CheckpointsOf(f) : PlaceOf(f, c[1], c[2]) > PlaceOf(f, phase, row) }

FirstOf(f, cs) == CHOOSE c \in cs : \A d \in cs : PlaceOf(f, c[1], c[2]) <= PlaceOf(f, d[1], d[2])

\* C5: when the cancellation flag is set before the build reaches a
\* checkpoint, the build is aborted with "cancelled" at the first checkpoint
\* it reaches after that; it returns no Shape and the cached Mesh and Shape
\* stay what they were.  A build is cancelled only if the flag was set.
C5_CancelledAtNextCheckpoint ==
    /\ ( /\ Idle
         /\ last.abortPhase # ""
         /\ CheckpointsAfter(last.file, last.abortPhase, last.abortRow) # {} )
        => /\ last.status = "failed"
           /\ last.error = "cancelled"
           /\ <<last.phase, last.row>> =
                FirstOf(last.file, CheckpointsAfter(last.file, last.abortPhase, last.abortRow))
           /\ last.shape = NoShape
           /\ _mesh = pre.cache.mesh
           /\ _shape = pre.cache.shape
    /\ (Failed /\ last.error = "cancelled") => last.abortPhase # ""

C5_Witness ==
    /\ Failed
    /\ last.error = "cancelled"
    /\ last.abortPhase = "vertexAwait"
    /\ last.phase = "vertex"
    /\ last.row = CheckpointRows

\* C6: for every Shape returned and every group id in the group buffer of
\* its Mesh, the color, the size and the label callback return a value.
C6_CallbacksValid ==
    Returned =>
        \A k \in 1..Len(last.shape.mesh.groups) :
            LET g == last.shape.mesh.groups[k]
                idx == At(last.shape.grouping.map, g)
            IN /\ GetLabel(last.shape, g).ok
               /\ GetSize(last.shape, g) = 1
               /\ idx # Undefined
               /\ Value(last.shape.coloring.red, idx) # Undefined
               /\ Value(last.shape.coloring.green, idx) # Undefined
               /\ Value(last.shape.coloring.blue, idx) # Undefined
               /\ GetColor(last.shape, g) \in 0..(256 * 65536 - 1)

\* The equations of C7 on a Grouping g of the rows of vertex under props.
GroupingMapOf(vertex, props, g) ==
    LET n == vertex.rowCount
        serial == props.grouping.name # "vertex"
                    \/ props.grouping.group \notin DOMAIN vertex.cols
    IN /\ Len(g.ids) = n
       /\ n > 0 => \E i \in 1..n : /\ Len(g.map) = g.ids[i] + 1
                                   /\ \A j \in 1..n : g.ids[j] <= g.ids[i]
       /\ \A i \in 1..n :
            /\ At(g.ids, At(g.map, g.ids[i])) = g.ids[i]
            /\ \A j \in 1..n : g.ids[j] = g.ids[i] => j - 1 <= At(g.map, g.ids[i])
       /\ serial => \A i \in 1..n : g.ids[i] = i - 1 /\ At(g.map, i - 1) = i - 1

\* C7: getGrouping does not raise on any vertex table; map has length
\* (maximum identifier + 1); map[g] is the largest row with identifier g;
\* without a group column ids is 0..N-1 and map[i] = i.
C7_GroupingMap ==
    (Idle /\ "grouping" \in last.ran) =>
        LET vertex == GetElement(last.file).vertex
        IN /\ GetGrouping(vertex, last.props, nreq).ok
           /\ _grouping.ref = nreq
           /\ GroupingMapOf(vertex, last.props, _grouping)

\* C7 on the vertex tables that have a row.
C7_NonEmptyTables ==
    (Idle /\ "grouping" \in last.ran /\ GetElement(last.file).vertex.rowCount > 0) =>
        LET vertex == GetElement(last.file).vertex
        IN /\ GetGrouping(vertex, last.props, nreq).ok
           /\ _grouping.ref = nreq
           /\ GroupingMapOf(vertex, last.props, _grouping)

\* C8: what the caller writes into its params object after a request has
\* returned does not reach the baseline of the cache: a request is an
\* unchanged, a colour-only or a full one by comparing its params with the
\* values the params had when the last request that returned a Shape was
\* made, and the cache holds those values.
C8_DeepCopiedBaseline ==
    /\ ( /\ Idle
         /\ last.status # "none"
         /\ GetElement(last.file).vertex.present
         /\ GetElement(last.file).face.present )
        => LET full == \/ pre.good.shape.ref = 0
                       \/ last.file # pre.good.file
                       \/ last.props.grouping # pre.good.props.grouping
               color == ~full /\ last.props.coloring # pre.good.props.coloring
           IN /\ full <=> "grouping" \in last.ran
              /\ color <=> last.ran = {"coloring"}
              /\ (~full /\ ~color) <=> last.ran = {}
    /\ (Idle /\ good.shape.ref # 0) => (CachedProps = good.props /\ _plyFile = good.file)

C8_Witness ==
    /\ Returned
    /\ pre.status = "returned"
    /\ last.file = pre.good.file
    /\ last.props.grouping # pre.good.props.grouping
    /\ "grouping" \in last.ran
    /\ CachedProps = last.props


(***************************************************************************)
(* Properties of the yield gate.                                           *)
(***************************************************************************)
\* The clock reading of the last call of yield(), 0 before the first.
LastYield(t) == IF t.yields = <<>> THEN 0 ELSE t.yields[Len(t.yields)]

\* The step is a read of needsYield by testYielding.
IsCheck == Len(testYielding'.checks) = Len(testYielding.checks) + 1

\* The step is a call of yield() by testYielding.
IsYield == Len(testYielding'.yields) = Len(testYielding.yields) + 1

\* C9: the gate's clock is the reading of the last yield(); a read of
\* needsYield sends the loop to yield() exactly when more than 250 ms have
\* passed since then; a call of yield() resets the clock, so that needsYield
\* is false right after it, and suspends the loop once; two consecutive
\* calls of yield() are more than 250 ms apart.
C9_YieldGate ==
    /\ [](/\ testYielding.lastUpdated = LastYield(testYielding)
          /\ testYielding.awaits = Len(testYielding.yields)
          /\ loop.pc = "await" => testYielding.yields # <<>>
          /\ \A k \in 1..(Len(testYielding.yields) - 1) :
                testYielding.yields[k + 1] - testYielding.yields[k] > Budget)
    /\ [][/\ IsCheck => (loop'.pc = "yield" <=> now - LastYield(testYielding) > Budget)
          /\ IsCheck /\ loop'.pc # "yield" => loop'.pc = "run" /\ ~IsYield
          /\ IsYield => /\ loop.pc = "yield" /\ loop'.pc = "await"
                        /\ LastYield(testYielding') = now'
                        /\ ~NeedsYield(testYielding', now')
                        /\ testYielding'.awaits = testYielding.awaits + 1
          /\ testYielding'.awaits # testYielding.awaits => IsYield]_vars

\* Two calls of yield() happened, and a read of needsYield exactly 250 ms
\* after a yield() did not lead to one.
C9_Witness ==
    /\ Len(testYielding.yields) >= 2
    /\ \E k \in 1..Len(testYielding.checks) :
          /\ testYielding.checks[k] - testYielding.yields[1] = Budget
          /\ \A j \in 1..Len(testYielding.yields) :
                testYielding.yields[j] < testYielding.checks[k]
                \/ testYielding.yields[j] - testYielding.checks[k] > 0

\* Two consecutive reads of needsYield less than 250 ms apart.
CloseChecks ==
    \E k \in 1..(Len(testYielding.checks) - 1) :
        testYielding.checks[k + 1] - testYielding.checks[k] < Budget

\* C10: testYielding calls yield() at most as often as it reads needsYield,
\* less often once two consecutive reads are less than 250 ms apart, and
\* never more often than yielding() awaits.
C10_FewerSuspensions ==
    /\ Len(testYielding.yields) <= Len(testYielding.checks)
    /\ CloseChecks => Len(testYielding.yields) < Len(testYielding.checks)
    /\ loop.pc = "run" => testYielding.awaits <= yielding.awaits
    /\ Len(testYielding.yields) <= yielding.awaits

\* The loops are through, with reads less than 250 ms apart and a yield().
C10_Witness ==
    /\ loop.i = Iterations
    /\ CloseChecks
    /\ testYielding.yields # <<>>
    /\ testYielding.awaits < yielding.awaits
    /\ yielding.awaits = Len(testYielding.checks)


(***************************************************************************)
(* Properties of the Mesh Builder.                                         *)
(***************************************************************************)
\* The request ran the Mesh Builder to its end and returned its Shape.
Built == Returned /\ "mesh" \in last.ran

\* The face rows of three entries, in row order.
TriangleRows(face) == SelectSeq(face.rows, LAMBDA r : Len(r) = 3)

\* C11: the index buffer of a built Mesh holds the three entries of every
\* face row of count 3, in row order, and nothing else; a row of another
\* count fails no build.
C11_FaceArityFiltering ==
    /\ Built =>
        LET face == GetElement(last.file).face
        IN /\ last.shape.mesh.indices = TriangleRows(face)
           /\ 3 * Len(last.shape.mesh.indices)
                = 3 * Cardinality({i \in 1..face.rowCount : Len(face.rows[i]) = 3})
    /\ (Failed /\ "mesh" \in last.ran)
        => last.error \in {"missing coordinate properties", "cancelled"}

\* A Mesh built from two different triangles with a quadrilateral between.
C11_Witness ==
    /\ Built
    /\ LET face == GetElement(last.file).face
       IN /\ \E i \in 1..face.rowCount : Len(face.rows[i]) # 3
          /\ Len(last.shape.mesh.indices) = 2
          /\ last.shape.mesh.indices[1] # last.shape.mesh.indices[2]


\* C12: changing the grouping params alone does not run the Coloring
\* Resolver again, and changing the coloring params alone does not run the
\* Grouping Resolver again.
C12_NeitherForcesTheOther ==
    (last.status # "none" /\ SameDataset)
        => /\ (~SameGrouping /\ SameColoring) => "coloring" \notin last.ran
           /\ (SameGrouping /\ ~SameColoring) => "grouping" \notin last.ran

\* C12 as the code has it: the two comparisons are independent; changed
\* coloring params alone run the Coloring Resolver and neither the Grouping
\* Resolver nor the Mesh Builder; changed grouping params run the full
\* rebuild, the Coloring Resolver included, whatever the coloring params.
C12_IndependentComparison ==
    (last.status # "none" /\ SameDataset)
        => /\ "grouping" \in last.ran <=> ~SameGrouping
           /\ "mesh" \in last.ran <=> ~SameGrouping
           /\ SameGrouping => ("coloring" \in last.ran <=> ~SameColoring)
           /\ ~SameGrouping => "coloring" \in last.ran

\* A request that changed the grouping params alone has returned.
C12_Witness ==
    /\ Returned
    /\ SameDataset /\ ~SameGrouping /\ SameColoring
    /\ last.ran = {"coloring", "grouping", "mesh"}
    /\ _coloring.ref = nreq


\* C13: a request on a vertex table without x, y or z fails with the
\* missing-property error before a MeshBuildState is allocated and before
\* the call is suspended anywhere.
C13_FailsBeforeAllocation ==
    (Failed /\ last.error = "missing coordinate properties")
        => /\ ~last.allocated
           /\ pre.cache.mesh = _mesh
           /\ last.phase = "" /\ last.abortPhase = ""

\* C13 without the allocation: the error comes in the step of the call
\* itself, before any suspension.
C13_FailsBeforeSuspension ==
    [][(last'.status = "failed" /\ last'.error = "missing coordinate properties"
            /\ nreq' # nreq)
        => call.pc = "idle" /\ call'.pc = "idle"]_vars


\* The step suspends the build in ctx.update.
Suspends ==
    /\ call'.pc \in {"vertexAwait", "faceAwait"}
    /\ <<call'.pc, call'.i>> # <<call.pc, call.i>>

C15_SameSuspensions ==
    loop.pc = "run" => yielding1.at = testYielding.at


\* C16: while a getShape call is suspended in the Mesh Builder no other
\* getShape call on the getter reads or writes a part of the cache.
C16_NoConcurrentBuilds ==
    other.reads \cup other.writes = {}


\* C17: in a built Mesh the position of vertex i is (x(i), y(i), z(i)) of
\* row i of the vertex table and entry i of the group buffer is the group id
\* of row i under the params of the request; there are as many vertices and
\* group entries as rows.
C17_VertexRowOrder ==
    Built =>
        LET vertex == GetElement(last.file).vertex
            mesh == last.shape.mesh
            ids == IF last.props.grouping.name = "vertex"
                      /\ last.props.grouping.group \in DOMAIN vertex.cols
                   THEN vertex.cols[last.props.grouping.group]
                   ELSE [i \in 1..vertex.rowCount |-> i - 1]
        IN /\ Len(mesh.vertices) = vertex.rowCount
           /\ Len(mesh.groups) = vertex.rowCount
           /\ \A i \in 1..vertex.rowCount :
                /\ mesh.vertices[i] = <<vertex.cols.x[i], vertex.cols.y[i], vertex.cols.z[i]>>
                /\ mesh.groups[i] = ids[i]

\* A Mesh built from rows whose group ids are not their row indices.
C17_Witness ==
    /\ Built
    /\ Len(last.shape.mesh.vertices) = MaxRows
    /\ last.shape.mesh.vertices[2] # last.shape.mesh.vertices[1]
    /\ \E i \in 1..MaxRows : last.shape.mesh.groups[i] # i - 1


\* The position of vertex v (from 0) of a vertex table.
PositionOf(vertex, v) ==
    <<vertex.cols.x[v + 1], vertex.cols.y[v + 1], vertex.cols.z[v + 1]>>

RECURSIVE FaceNormalSum(_, _, _, _)
\* The sum, over the first k face rows, of the normals of the triangles that
\* have vertex v for a corner.
FaceNormalSum(vertex, face, v, k) ==
    IF k = 0 THEN <<0, 0, 0>>
    ELSE LET r == face.rows[k]
         IN Add(FaceNormalSum(vertex, face, v, k - 1),
                IF Len(r) = 3 /\ v \in {r[1], r[2], r[3]}
                THEN Cross(Sub(PositionOf(vertex, r[2]), PositionOf(vertex, r[1])),
                           Sub(PositionOf(vertex, r[3]), PositionOf(vertex, r[1])))
                ELSE <<0, 0, 0>>)

AllNormalsPresent(vertex) == {"nx", "ny", "nz"} \subseteq DOMAIN vertex.cols

\* C18: with nx, ny and nz all on the vertex table the build appends the
\* normal of every row, in row order, and flags the Mesh; with one of them
\* missing it appends no normal, does not flag the Mesh, and the normals of
\* the Mesh are those computed from all the vertex and face rows.
C18_SuppliedNormals ==
    /\ Built =>
        LET vertex == GetElement(last.file).vertex
            face == GetElement(last.file).face
            mesh == last.shape.mesh
        IN /\ last.normalsComputed <=> AllNormalsPresent(vertex)
           /\ Len(mesh.normals) = vertex.rowCount
           /\ \A i \in 1..vertex.rowCount :
                mesh.normals[i] =
                    IF AllNormalsPresent(vertex)
                    THEN <<vertex.cols.nx[i], vertex.cols.ny[i], vertex.cols.nz[i]>>
                    ELSE FaceNormalSum(vertex, face, i - 1, face.rowCount)
    /\ call.pc \in {"vertexAwait", "faceAwait"} =>
        LET vertex == GetElement(call.file).vertex
        IN IF AllNormalsPresent(vertex)
           THEN /\ Len(call.st.normals) = Len(call.st.vertices)
                /\ \A i \in 1..Len(call.st.normals) :
                      call.st.normals[i]
                        = <<vertex.cols.nx[i], vertex.cols.ny[i], vertex.cols.nz[i]>>
           ELSE call.st.normals = <<>>

\* A Mesh built from a table with nx and ny but no nz: its normals are
\* computed, and they are not all zero.
C18_Witness ==
    /\ Built
    /\ "nx" \in DOMAIN GetElement(last.file).vertex.cols
    /\ ~AllNormalsPresent(GetElement(last.file).vertex)
    /\ ~last.normalsComputed
    /\ \E i \in 1..Len(last.shape.mesh.normals) : last.shape.mesh.normals[i] # <<0, 0, 0>>


\* The Shape a new shape getter returns for dataset f and params props when
\* its build is never suspended.
FromScratch(f, props) ==
    LET el == GetElement(f)
        grouping == GetGrouping(el.vertex, props, 0).grouping
        start == VertexStart(f)
        r == RunLoops(f, start.pc, start.i, CreateState, FALSE, <<"none", 0>>, grouping.ids)
    IN CreateShape(f, FinishMesh(r.st, el.vertex, 0), GetColoring(el.vertex, props, 0),
                   grouping, 0)

\* C19: the Shape a request returns has the Mesh contents, and for every
\* group id of its Mesh the color and the label, of the Shape built from
\* scratch from the dataset and the params of the request.
C19_CacheTransparency ==
    Returned =>
        LET fresh == FromScratch(last.file, last.props)
            mesh == last.shape.mesh
        IN /\ mesh.vertices = fresh.mesh.vertices
           /\ mesh.normals = fresh.mesh.normals
           /\ mesh.indices = fresh.mesh.indices
           /\ mesh.groups = fresh.mesh.groups
           /\ \A k \in 1..Len(fresh.mesh.groups) :
                LET g == fresh.mesh.groups[k]
                IN /\ GetColor(last.shape, g) = GetColor(fresh, g)
                   /\ GetLabel(last.shape, g) = GetLabel(fresh, g)
                   /\ GetSize(last.shape, g) = GetSize(fresh, g)

\* C19 for the Mesh alone.
C19_MeshContentsFromScratch ==
    Returned =>
        LET fresh == FromScratch(last.file, last.props)
            mesh == last.shape.mesh
        IN /\ mesh.vertices = fresh.mesh.vertices
           /\ mesh.normals = fresh.mesh.normals
           /\ mesh.indices = fresh.mesh.indices
           /\ mesh.groups = fresh.mesh.groups

====
